---- MODULE Spec2Model ----
(***************************************************************************)
(* Model of the PIM-to-catalog mapping scripts seed/map_pim.py and         *)
(* seed/map_pim_old.py: the cell-level transforms (parse_rating,           *)
(* parse_and_process_bars, combine_option_groups_and_values,               *)
(* process_facets, clean_and_convert) and the group loop of                *)
(* convert_source_to_products.                                             *)
(*                                                                         *)
(* Representation.  A spreadsheet cell is a record [t, num, den, s]:       *)
(*   t = "nan"   an empty cell (pandas NaN)                                *)
(*   t = "none"  Python None                                               *)
(*   t = "num"   the number num/den, den a power of ten, in lowest such    *)
(*               form (Python int/float; float rounding is not modelled)   *)
(*   t = "bool"  a Python bool, num = 1 for True and 0 for False           *)
(*   t = "str"   the text s, a sequence of one-character strings           *)
(***************************************************************************)
EXTENDS Integers, Sequences, FiniteSets, TLC

VARIABLES
    source_data,     \* convert_source_to_products: the rows of the sheet read
    option_columns,  \* <<option_group_columns, option_value_columns>>
    grouped_data,    \* source_data.groupby('slug'): [slug, index] per group
    all_rows,        \* the dicts collected so far
    mapped,          \* history: for every dict of all_rows, the index of its
                     \* source row, the slug of the group and first_row then
    log,             \* the warnings printed so far
    first_row,       \* the flag of the group loop
    group_no,        \* the number of the group the outer loop is in
    rows_done,       \* the rows of that group the inner loop has done
    converted_data,  \* the table built from all_rows
    pc,              \* "idle", "groups", "rows", "done"
    value,           \* parse_rating: the argument
    rating,          \* parse_rating: the value returned
    rpc,             \* parse_rating: "idle", "start", "parsed", "parsed_old"
    sheet_columns,   \* option folding: the columns of the sheet, in its order
    option_row,      \* option folding: the row
    combined,        \* <<optionGroups_str, optionValues_str>> returned
    opc,             \* option folding: "idle", "start", "combined"
    facet_row,       \* process_facets: the row
    facet_column_list, \* map_pim_old.py: facet_columns, the columns named 'facets.*'
    facets_out,      \* process_facets: the text returned
    fpc,             \* process_facets: "idle", "start", "folded", "folded_old"
    html_in,        \* clean_html: the argument
    html_parts,      \* the pieces the argument is written from
    cleaned,         \* the text clean_html returned
    cleaned_again,   \* clean_html of that text
    hpc,             \* clean_html: "idle", "start", "cleaned", "again"
    cell_row,        \* clean_and_convert: the row
    cell_type,       \* clean_and_convert: the data_type asked for
    converted,       \* clean_and_convert: the value returned, or the exception raised
    diagnostics,     \* clean_and_convert: the error lines printed
    cpc              \* clean_and_convert: "idle", "start", "converted"

convert_vars ==
    <<source_data, option_columns, grouped_data, all_rows, mapped, log,
      first_row, group_no, rows_done, converted_data, pc>>

rating_vars == <<value, rating, rpc>>

option_vars == <<sheet_columns, option_row, combined, opc>>

facet_vars == <<facet_row, facet_column_list, facets_out, fpc>>

html_vars == <<html_in, html_parts, cleaned, cleaned_again, hpc>>

cell_vars == <<cell_row, cell_type, converted, diagnostics, cpc>>

function_vars == <<rating_vars, option_vars, facet_vars, html_vars, cell_vars>>

vars == <<convert_vars, function_vars>>

----------------------------------------------------------------------------
(* Cells *)

NaN == [t |-> "nan", num |-> 0, den |-> 1, s |-> <<>>]

None == [t |-> "none", num |-> 0, den |-> 1, s |-> <<>>]

Str(chars) == [t |-> "str", num |-> 0, den |-> 1, s |-> chars]

Bool(b) == [t |-> "bool", num |-> IF b THEN 1 ELSE 0, den |-> 1, s |-> <<>>]

RECURSIVE Norm(_, _)
\* num/den with den the smallest power of ten that keeps num an integer
Norm(n, d) ==
    IF d > 1 /\ n % 10 = 0 THEN Norm(n \div 10, d \div 10)
    ELSE [t |-> "num", num |-> n, den |-> d, s |-> <<>>]

Num(n, d) == Norm(n, d)

\* pd.isna on a scalar
isna(v) == v.t \in {"nan", "none"}

\* Python truthiness: `not v`.  A float NaN is truthy.
Falsy(v) ==
    \/ v.t = "none"
    \/ v.t = "str" /\ v.s = <<>>
    \/ v.t \in {"num", "bool"} /\ v.num = 0

----------------------------------------------------------------------------
(* Text helpers: str.replace, str.strip, float() *)

RECURSIVE Remove(_, _)
\* s.replace(c, '')
Remove(s, c) ==
    IF s = <<>> THEN <<>>
    ELSE IF Head(s) = c THEN Remove(Tail(s), c)
    ELSE <<Head(s)>> \o Remove(Tail(s), c)

RECURSIVE LStrip(_)
LStrip(s) == IF s # <<>> /\ Head(s) = " " THEN LStrip(Tail(s)) ELSE s

RECURSIVE RStrip(_)
RStrip(s) ==
    IF s # <<>> /\ s[Len(s)] = " " THEN RStrip(SubSeq(s, 1, Len(s) - 1)) ELSE s

\* s.strip()
Strip(s) == RStrip(LStrip(s))

Digits == <<"0", "1", "2", "3", "4", "5", "6", "7", "8", "9">>

IsDigit(c) == \E i \in 1..Len(Digits) : Digits[i] = c

DigitVal(c) == (CHOOSE i \in 1..Len(Digits) : Digits[i] = c) - 1

RECURSIVE Pow10(_)
Pow10(k) == IF k = 0 THEN 1 ELSE 10 * Pow10(k - 1)

RECURSIVE DigitsVal(_)
\* the integer written by a sequence of digits, dots skipped
DigitsVal(s) ==
    IF s = <<>> THEN 0
    ELSE IF s[Len(s)] = "." THEN DigitsVal(SubSeq(s, 1, Len(s) - 1))
    ELSE DigitVal(s[Len(s)]) + 10 * DigitsVal(SubSeq(s, 1, Len(s) - 1))

Signed(s) == s # <<>> /\ Head(s) \in {"-", "+"}

Unsigned(s) == IF Signed(s) THEN Tail(s) ELSE s

\* the texts float() accepts, among texts of digits, dots, signs and other
\* characters: [sign] digits [. [digits]]  or  [sign] . digits
IsFloatText(s) ==
    LET u == Unsigned(s) IN
    /\ \A i \in 1..Len(u) : IsDigit(u[i]) \/ u[i] = "."
    /\ \E i \in 1..Len(u) : IsDigit(u[i])
    /\ Cardinality({i \in 1..Len(u) : u[i] = "."}) <= 1

\* float(s) for a text float() accepts
StrToFloat(s) ==
    LET u    == Unsigned(s)
        dots == {i \in 1..Len(u) : u[i] = "."}
        frac == IF dots = {} THEN 0 ELSE Len(u) - (CHOOSE i \in dots : TRUE)
        sign == IF s # <<>> /\ Head(s) = "-" THEN -1 ELSE 1
    IN  Num(sign * DigitsVal(u), Pow10(frac))

----------------------------------------------------------------------------
(* parse_rating *)

\* the comparison written 0 < value < 1
Scale_below_one(v) ==
    IF 0 < v.num /\ v.num < v.den THEN Num(v.num * 100, v.den)
    ELSE Num(v.num, v.den)

\* the upper test dropped: every positive value is scaled
Scale_any_positive(v) ==
    IF 0 < v.num THEN Num(v.num * 100, v.den)
    ELSE Num(v.num, v.den)

\* value * 100 if 0 < value <= 1 else value
Scale(v) ==
    IF 0 < v.num /\ v.num <= v.den THEN Num(v.num * 100, v.den)
    ELSE Num(v.num, v.den)

parse_rating(v) ==
    IF Falsy(v) \/ isna(v) THEN NaN
    ELSE IF v.t \in {"num", "bool"} THEN Scale(v)
    ELSE IF v.t = "str" THEN
        LET text == Strip(Remove(v.s, "%")) IN
        IF IsFloatText(text) THEN Scale(StrToFloat(text))
        ELSE NaN   \* ValueError caught
    ELSE NaN

\* value * 100 if value <= 1 else value
Scale_old(v) ==
    IF v.num <= v.den THEN Num(v.num * 100, v.den)
    ELSE Num(v.num, v.den)

parse_rating_old(v) ==
    IF Falsy(v) THEN NaN
    ELSE IF v.t = "nan" THEN NaN   \* nan <= 1 is False: returned as is
    ELSE IF v.t \in {"num", "bool"} THEN Scale_old(v)
    ELSE
        LET text == Strip(Remove(v.s, "%")) IN
        IF IsFloatText(text) THEN Scale_old(StrToFloat(text))
        ELSE NaN   \* ValueError caught

----------------------------------------------------------------------------
(* More text helpers: str(), '|'.join, re.sub(r'\s*\|\s*', '|', .) *)

RECURSIVE NatToStr(_)
NatToStr(n) ==
    IF n < 10 THEN <<Digits[n + 1]>>
    ELSE NatToStr(n \div 10) \o <<Digits[(n % 10) + 1]>>

RECURSIVE FracToStr(_, _)
\* the digits of n written in exactly as many places as d has zeros
FracToStr(n, d) ==
    IF d = 1 THEN <<>>
    ELSE FracToStr(n \div 10, d \div 10) \o <<Digits[(n % 10) + 1]>>

Abs(n) == IF n < 0 THEN -n ELSE n

\* str(v) of a cell that is not empty.  The number num/1 is a Python int; a
\* float with an integral value is not among the modelled cells.
ToStr(v) ==
    IF v.t = "str" THEN v.s
    ELSE IF v.t = "bool" THEN (IF v.num = 1 THEN <<"True">> ELSE <<"False">>)
    ELSE IF v.t = "num" THEN
        (IF v.num < 0 THEN <<"-">> ELSE <<>>)
            \o NatToStr(Abs(v.num) \div v.den)
            \o (IF v.den = 1 THEN <<>>
                ELSE <<".">> \o FracToStr(Abs(v.num) % v.den, v.den))
    ELSE IF v.t = "none" THEN <<"None">>
    ELSE <<"nan">>

RECURSIVE Join(_, _)
\* sep.join(parts)
Join(parts, sep) ==
    IF parts = <<>> THEN <<>>
    ELSE IF Len(parts) = 1 THEN parts[1]
    ELSE parts[1] \o sep \o Join(Tail(parts), sep)

\* position i of s lies in a run of blanks that touches a '|'
BlankByPipe(s, i) ==
    /\ s[i] = " "
    /\ \/ \E j \in (i + 1)..Len(s) :
              s[j] = "|" /\ \A k \in i..(j - 1) : s[k] = " "
       \/ \E j \in 1..(i - 1) :
              s[j] = "|" /\ \A k \in (j + 1)..i : s[k] = " "

RECURSIVE PipeSubFrom(_, _)
PipeSubFrom(s, i) ==
    IF i > Len(s) THEN <<>>
    ELSE (IF BlankByPipe(s, i) THEN <<>> ELSE <<s[i]>>) \o PipeSubFrom(s, i + 1)

\* re.sub(r'\s*\|\s*', '|', s)
PipeSub(s) == PipeSubFrom(s, 1)

----------------------------------------------------------------------------
(* Rows.  A row is a function from column names to cells; row.get(key,     *)
(* default) is Get.                                                        *)

Get(row, key, default) == IF key \in DOMAIN row THEN row[key] ELSE default

Empty == Str(<<>>)

----------------------------------------------------------------------------
(* combine_option_groups_and_values and the discovery of its columns *)

\* the option columns of a sheet, by numeric suffix: what
\* re.match(r'option(?:\s*Groups?)\s*#\d+', col) and re.search(r'#(\d+)', col)
\* read off a column name
OptionGroupNames ==
    <<"optionGroups #1", "optionGroups #2", "optionGroups #3", "optionGroups #4">>

OptionValueNames ==
    <<"optionValues #1", "optionValues #2", "optionValues #3", "optionValues #4">>

IsNamed(col, names) == \E n \in 1..Len(names) : names[n] = col

Suffix(col, names) == CHOOSE n \in 1..Len(names) : names[n] = col

RECURSIVE SelectCols(_, _)
\* [col for col in columns if re.match(...)]
SelectCols(cols, names) ==
    IF cols = <<>> THEN <<>>
    ELSE (IF IsNamed(Head(cols), names) THEN <<Head(cols)>> ELSE <<>>)
             \o SelectCols(Tail(cols), names)

RECURSIVE InsertCol(_, _, _)
\* col placed after every column of the sorted list whose suffix is <= its own
InsertCol(sorted, col, names) ==
    IF sorted = <<>> THEN <<col>>
    ELSE IF Suffix(col, names) < Suffix(Head(sorted), names)
         THEN <<col>> \o sorted
         ELSE <<Head(sorted)>> \o InsertCol(Tail(sorted), col, names)

RECURSIVE SortCols(_, _)
\* sorted(cols, key=suffix), stable
SortCols(cols, names) ==
    IF cols = <<>> THEN <<>>
    ELSE InsertCol(SortCols(SubSeq(cols, 1, Len(cols) - 1), names),
                   cols[Len(cols)], names)

option_group_columns(cols) == SortCols(SelectCols(cols, OptionGroupNames), OptionGroupNames)

\* the value columns in the order of the sheet, not sorted
option_value_columns_unsorted(cols) == SelectCols(cols, OptionValueNames)

option_value_columns(cols) == SortCols(SelectCols(cols, OptionValueNames), OptionValueNames)

Min(a, b) == IF a < b THEN a ELSE b

\* the test of the stripped text dropped
Filled_not_nan(cell) == ~isna(cell)

\* not pd.isna(cell) and str(cell).strip() != ''
Filled(cell) == ~isna(cell) /\ Strip(ToStr(cell)) # <<>>

RECURSIVE Collect(_, _, _)
\* the stripped texts of the filled cells of row under cols[1..n], in order
Collect(row, cols, n) ==
    IF n = 0 THEN <<>>
    ELSE Collect(row, cols, n - 1)
             \o (IF Filled(Get(row, cols[n], Empty))
                 THEN <<Strip(ToStr(Get(row, cols[n], Empty)))>> ELSE <<>>)

\* returns <<optionGroups_str, optionValues_str>>
combine_option_groups_and_values(row, group_cols, value_cols) ==
    LET n == Min(Len(group_cols), Len(value_cols))   \* zip
    IN  << PipeSub(Join(Collect(row, group_cols, n), <<"|">>)),
           PipeSub(Join(Collect(row, value_cols, n), <<"|">>)) >>

----------------------------------------------------------------------------
(* Character order and case: sorted() on str, str.lower() *)

Ascii ==
    <<" ", "%", "+", ",", "-", ".", "/",
      "0", "1", "2", "3", "4", "5", "6", "7", "8", "9", ":", "<", ">",
      "A", "B", "C", "D", "E", "F", "G", "H", "I", "J", "K", "L", "M",
      "N", "O", "P", "Q", "R", "S", "T", "U", "V", "W", "X", "Y", "Z", "_",
      "a", "b", "c", "d", "e", "f", "g", "h", "i", "j", "k", "l", "m",
      "n", "o", "p", "q", "r", "s", "t", "u", "v", "w", "x", "y", "z", "|">>

Ord(c) == CHOOSE i \in 1..Len(Ascii) : Ascii[i] = c

FirstUpper == Ord("A")

FirstLower == Ord("a")

IsUpper(c) == \E i \in FirstUpper..(FirstUpper + 25) : Ascii[i] = c

IsLetter(c) ==
    \/ IsUpper(c)
    \/ \E i \in FirstLower..(FirstLower + 25) : Ascii[i] = c

LowerChar(c) == IF IsUpper(c) THEN Ascii[Ord(c) - FirstUpper + FirstLower] ELSE c

\* s.lower()
Lower(s) == [i \in 1..Len(s) |-> LowerChar(s[i])]

RECURSIVE StrLess(_, _)
\* s < t for Python str
StrLess(s, t) ==
    IF t = <<>> THEN FALSE
    ELSE IF s = <<>> THEN TRUE
    ELSE IF Head(s) = Head(t) THEN StrLess(Tail(s), Tail(t))
    ELSE Ord(Head(s)) < Ord(Head(t))

RECURSIVE Sorted(_)
\* sorted(S) for a set S of texts
Sorted(S) ==
    IF S = {} THEN <<>>
    ELSE LET least == CHOOSE x \in S : \A y \in S \ {x} : StrLess(x, y)
         IN  <<least>> \o Sorted(S \ {least})

RECURSIVE Split(_, _)
\* s.split(c)
Split(s, c) ==
    IF \A i \in 1..Len(s) : s[i] # c THEN <<s>>
    ELSE LET i == CHOOSE k \in 1..Len(s) :
                      s[k] = c /\ \A j \in 1..(k - 1) : s[j] # c
         IN  <<SubSeq(s, 1, i - 1)>> \o Split(SubSeq(s, i + 1, Len(s)), c)

Range(f) == {f[i] : i \in DOMAIN f}

----------------------------------------------------------------------------
(* process_facets *)

\* map_pim.py: the 'Facets' cell with the blanks around its pipes removed
process_facets(row) ==
    LET facets == Get(row, "Facets", Empty) IN
    IF isna(facets) THEN <<>> ELSE PipeSub(Strip(ToStr(facets)))

\* the fragment map_pim_old.py adds to its set for one comma-separated part
Fragment(facet) ==
    IF \E i \in 1..Len(facet) : facet[i] = ":" THEN
        LET i      == CHOOSE k \in 1..Len(facet) :
                          facet[k] = ":" /\ \A j \in 1..(k - 1) : facet[j] # ":"
            key    == SubSeq(facet, 1, i - 1)
            vals   == Split(SubSeq(facet, i + 1, Len(facet)), ",")
            values == Join([k \in 1..Len(vals) |-> Strip(vals[k])], <<"|">>)
        IN  key \o <<":">> \o values
    ELSE <<"u", "n", "k", "n", "o", "w", "n", ":">> \o facet

\* the fragments of one facet cell
CellFragments(cell) ==
    IF isna(cell) THEN {}
    ELSE LET raw == Strip(ToStr(cell)) IN
         IF Lower(raw) = <<"n", "a", "n">> THEN {}
         ELSE {Fragment(Strip(part)) : part \in Range(Split(raw, ","))}

\* map_pim_old.py: a set of fragments, sorted
process_facets_old(row, facet_columns) ==
    Join(Sorted(UNION {CellFragments(Get(row, facet_columns[k], Empty)) :
                           k \in 1..Len(facet_columns)}),
         <<"|">>)

----------------------------------------------------------------------------
(* clean_html *)

\* tag[1:-1] for tag in allowed_tags
AllowedNames ==
    { <<"b">>, <<"/", "b">>, <<"i">>, <<"/", "i">>,
      <<"s", "t", "r", "o", "n", "g">>, <<"/", "s", "t", "r", "o", "n", "g">>,
      <<"e", "m">>, <<"/", "e", "m">>, <<"b", "r">>,
      <<"u", "l">>, <<"/", "u", "l">>, <<"l", "i">>, <<"/", "l", "i">>,
      <<"p">>, <<"/", "p">>, <<"a">>, <<"/", "a">>,
      <<"s", "p", "a", "n">>, <<"/", "s", "p", "a", "n">>,
      <<"h", "1">>, <<"/", "h", "1">>, <<"h", "2">>, <<"/", "h", "2">>,
      <<"h", "3">>, <<"/", "h", "3">>,
      <<"d", "i", "v">>, <<"/", "d", "i", "v">>, <<"i", "m", "g">>, <<"h", "r">> }

\* \w
IsWordChar(c) == IsLetter(c) \/ IsDigit(c) \/ c = "_"

\* w occurs in s from position i on
PrefixAt(s, i, w) ==
    /\ i + Len(w) - 1 <= Len(s)
    /\ \A k \in 1..Len(w) : s[i + k - 1] = w[k]

\* \b after position j, which holds a word character
BoundaryAfter(s, j) == j = Len(s) \/ ~IsWordChar(s[j + 1])

\* the lookahead without its \b
AllowedAt_no_boundary(s, i) ==
    \E w \in AllowedNames, k \in {0, 1} :
        /\ k = 1 => (i + 1 <= Len(s) /\ s[i + 1] = "/")
        /\ PrefixAt(s, i + 1 + k, w)

\* the lookahead /?(?:b|/b|...)\b succeeds right after the '<' at position i
AllowedAt(s, i) ==
    \E w \in AllowedNames, k \in {0, 1} :
        /\ k = 1 => (i + 1 <= Len(s) /\ s[i + 1] = "/")
        /\ PrefixAt(s, i + 1 + k, w)
        /\ BoundaryAfter(s, i + k + Len(w))

\* the pattern <(?!...)[^>]*> matches at position i
TagAt(s, i) ==
    /\ s[i] = "<"
    /\ ~AllowedAt(s, i)
    /\ \E j \in (i + 1)..Len(s) : s[j] = ">"

TagEnd(s, i) ==
    CHOOSE j \in (i + 1)..Len(s) : s[j] = ">" /\ \A k \in (i + 1)..(j - 1) : s[k] # ">"

RECURSIVE CleanFrom(_, _)
\* re.sub(cleanr, '', s) from position i on
CleanFrom(s, i) ==
    IF i > Len(s) THEN <<>>
    ELSE IF TagAt(s, i) THEN CleanFrom(s, TagEnd(s, i) + 1)
    ELSE <<s[i]>> \o CleanFrom(s, i + 1)

clean_html(raw_html) ==
    IF isna(raw_html) THEN <<>> ELSE CleanFrom(ToStr(raw_html), 1)

----------------------------------------------------------------------------
(* clean_and_convert *)

RECURSIVE Filter(_, _)
\* re.sub(r'[^...]', '', s): the characters of s that are in keep
Filter(s, keep) ==
    IF s = <<>> THEN <<>>
    ELSE (IF Head(s) \in keep THEN <<Head(s)>> ELSE <<>>) \o Filter(Tail(s), keep)

DigitSet == Range(Digits)

\* the texts int() accepts, among texts of digits and minus signs
IsIntText(s) ==
    LET u == Unsigned(s) IN
    u # <<>> /\ \A i \in 1..Len(u) : IsDigit(u[i])

Places == 100000

\* float(Decimal(v).quantize(Decimal('0.00001'))), rounding half to even
Quantize(v) ==
    IF v.den <= Places THEN Num(v.num, v.den)
    ELSE LET m    == v.den \div Places
             q    == Abs(v.num) \div m
             r    == Abs(v.num) % m
             up   == 2 * r > m \/ (2 * r = m /\ q % 2 = 1)
             mag  == IF up THEN q + 1 ELSE q
         IN  Num((IF v.num < 0 THEN -1 ELSE 1) * mag, Places)

TrueTexts == { <<"t", "r", "u", "e">>, <<"1">>, <<"y", "e", "s">> }

\* the exception raised in the try block: by int() and by Decimal() on a
\* text they do not accept
ConversionError(v, data_type) ==
    IF data_type = "int" THEN
        IF IsIntText(Filter(ToStr(v), DigitSet \cup {"-"})) THEN "none" ELSE "ValueError"
    ELSE IF data_type = "float" /\ v.t = "str" THEN
        IF IsFloatText(Filter(v.s, DigitSet \cup {".", "-"}))
        THEN "none" ELSE "InvalidOperation"
    ELSE "none"

\* an except clause without decimal.InvalidOperation
Caught_without_decimal == {"ValueError", "TypeError"}

\* except (ValueError, TypeError, InvalidOperation)
Caught == {"ValueError", "TypeError", "InvalidOperation"}

\* a call that ends in an exception
Raised(exception) == [t |-> "raise", num |-> 0, den |-> 1, s |-> <<exception>>]

\* the value returned: Empty where the conversion raised and was caught
clean_and_convert(row, key, data_type) ==
    LET v == Get(row, key, None) IN
    IF isna(v) THEN Empty
    ELSE IF ConversionError(v, data_type) # "none" THEN
        IF ConversionError(v, data_type) \in Caught
        THEN Empty ELSE Raised(ConversionError(v, data_type))
    ELSE IF data_type = "int" THEN
        StrToFloat(Filter(ToStr(v), DigitSet \cup {"-"}))
    ELSE IF data_type = "float" THEN
        IF v.t = "str"
        THEN Quantize(StrToFloat(Filter(v.s, DigitSet \cup {".", "-"})))
        ELSE Quantize(v)
    ELSE IF data_type = "bool" THEN
        IF v.t = "bool" THEN v
        ELSE IF v.t = "num" THEN Bool(v.num # 0)
        ELSE Bool(Lower(Strip(v.s)) \in TrueTexts)
    ELSE Str(Strip(ToStr(v)))

\* the lines "Error converting field ..." the call prints
error_lines(row, key, data_type) ==
    LET v == Get(row, key, None) IN
    IF ~isna(v) /\ ConversionError(v, data_type) \in Caught THEN 1 ELSE 0

----------------------------------------------------------------------------
(* parse_and_process_bars *)

\* a literal of the code; the text of a word the code never looks into is
\* one element
Lit(word) == IF word = "" THEN Empty ELSE Str(<<word>>)

\* the labels set for bar i of tab tab_id
min_label(tab_id, i) ==
    IF tab_id = 1 /\ i = 1 THEN "Beginner"
    ELSE IF tab_id = 1 /\ i = 2 THEN "Soft"
    ELSE ""

max_label(tab_id, i) ==
    IF tab_id = 1 /\ i = 1 THEN "Expert"
    ELSE IF tab_id = 1 /\ i = 2 THEN "Stiff"
    ELSE ""

\* not pd.isna(rating) and rating > 0
bar_visible(r) == ~isna(r) /\ r.num > 0

\* the labels written whether or not the bar is visible
bar_labels_kept(row, info, tab_id, i) ==
    LET r       == parse_rating(Get(row, info[2], Lit("Missing Key")))
        visible == bar_visible(r)
    IN  [name     |-> Lit(info[1]),
         visible  |-> visible,
         rating   |-> IF visible THEN r ELSE Empty,
         minLabel |-> Lit(min_label(tab_id, i)),
         maxLabel |-> Lit(max_label(tab_id, i)),
         min      |-> Lit("10"),
         max      |-> Lit("100")]

\* the dict appended for bar i, whose bar_info entry is <<bar_name, source_key>>
bar(row, info, tab_id, i) ==
    LET r       == parse_rating(Get(row, info[2], Lit("Missing Key")))
        visible == bar_visible(r)
    IN  [name     |-> Lit(info[1]),
         visible  |-> visible,
         rating   |-> IF visible THEN r ELSE Empty,
         minLabel |-> IF visible THEN Lit(min_label(tab_id, i)) ELSE Empty,
         maxLabel |-> IF visible THEN Lit(max_label(tab_id, i)) ELSE Empty,
         min      |-> Lit("10"),
         max      |-> Lit("100")]

\* the list of bars; the second value returned is should_tab_be_visible of it
parse_and_process_bars(row, bar_info, tab_id) ==
    [i \in 1..Len(bar_info) |-> bar(row, bar_info[i], tab_id, i)]

\* all() written for any()
should_tab_be_visible_all(tab_bars) == \A i \in 1..Len(tab_bars) : tab_bars[i].visible

should_tab_be_visible(tab_bars) == \E i \in 1..Len(tab_bars) : tab_bars[i].visible

tab1_bars_info ==
    << <<"Difficulty rider level rating", "variant:Riderlevel">>,
       <<"Difficulty flex rating", "variant:Flex">> >>

tab2_bars_info ==
    << <<"Powder", "variant:Powder">>,
       <<"All Mountain", "variant:All mountain">>,
       <<"Resort", "variant:Freestyle">> >>

----------------------------------------------------------------------------
(* The body of the row loop of convert_source_to_products: the dict new_row *)

\* str(b)
PyBool(b) == Str(ToStr(Bool(b)))

\* the first_row test dropped
Text_every_row(row, key, is_first) == clean_and_convert(row, key, "string")

Text(row, key, is_first) ==
    IF is_first THEN clean_and_convert(row, key, "string") ELSE Empty

product_fields(row, is_first) ==
    ("name" :> Text(row, "name", is_first))
    @@ ("slug" :> Text(row, "slug", is_first))
    @@ ("description" :>
          IF is_first
          THEN Str(clean_html(Get(row, "product:shortdescription HTML:en", Empty)))
          ELSE Empty)
    @@ ("assets" :> Text(row, "assets", is_first))
    @@ ("facets" :> IF is_first THEN Str(process_facets(row)) ELSE Empty)
    @@ ("product:brand" :> Text(row, "product:Brand", is_first))
    @@ ("product:warranty" :> Text(row, "product:warranty", is_first))
    @@ ("product:eanCode" :> Text(row, "Product:EAN code", is_first))
    @@ ("product:quote" :> Text(row, "product:quote", is_first))
    @@ ("product:quoteOwner" :> Text(row, "product:quote-owner", is_first))
    @@ ("product:boardCategory" :> Text(row, "Product:boardcategory", is_first))
    @@ ("product:terrain" :> Text(row, "Product:terrain", is_first))
    @@ ("product:camberProfile" :> Text(row, "Product:camberprofile", is_first))
    @@ ("product:profile" :> Text(row, "Product:profile", is_first))
    @@ ("product:baseProfile" :> Text(row, "Product:baseprofile", is_first))
    @@ ("product:rider" :> Text(row, "Product:rider", is_first))
    @@ ("product:taperProfile" :> Text(row, "Product: Taper profile", is_first))
    @@ ("product:bindingSize" :> Text(row, "Product:bindingsize", is_first))
    @@ ("product:bindingMount" :> Text(row, "Product: bindingmount", is_first))
    @@ ("product:edges" :> Text(row, "Product: edges", is_first))
    @@ ("product:sidewall" :> Text(row, "Product: Sidewall", is_first))
    @@ ("product:core" :> Text(row, "Product: Core", is_first))
    @@ ("product:layup1" :> Text(row, "Product: lay-up", is_first))
    @@ ("product:layup2" :> Text(row, "Product: lay-up", is_first))
    @@ ("product:layup3" :> Text(row, "Product: lay-up", is_first))
    @@ ("product:boardbase" :> Text(row, "Product: base", is_first))

general_fields(row) ==
    ("sku" :> clean_and_convert(row, "sku", "string"))
    @@ ("price" :> clean_and_convert(row, "price", "float"))
    @@ ("taxCategory" :> clean_and_convert(row, "taxCategory", "string"))
    @@ ("stockOnHand" :> Num(999999, 1))
    @@ ("trackInventory" :> Bool(TRUE))
    @@ ("variantAssets" :> clean_and_convert(row, "variantAssets", "string"))
    @@ ("variantFacets" :> clean_and_convert(row, "variantFacets", "string"))
    @@ ("variant:frontPhoto" :>
          clean_and_convert(row, "Carrouselasset: topPhoto", "relation"))
    @@ ("variant:backPhoto" :>
          clean_and_convert(row, "Carrouselasset: BasePhoto", "relation"))
    @@ ("variant:shortdescription" :>
          Str(clean_html(Get(row, "product:shortdescription HTML:en", Empty))))
    @@ ("variant:descriptionTab1Label" :> Lit("Description"))
    @@ ("variant:descriptionTab1Visible" :> Bool(TRUE))
    @@ ("variant:descriptionTab1Content" :>
          Str(clean_html(Get(row, "product:longdescription HTML:en", Empty))))

dimension_fields(row) ==
    ("variant:noseWidth" :> clean_and_convert(row, "variant:nose width(cm)", "float"))
    @@ ("variant:waistWidth" :> clean_and_convert(row, "variant:waist width(cm)", "float"))
    @@ ("variant:tailWidth" :> clean_and_convert(row, "variant:tail width(cm)", "float"))
    @@ ("variant:taper" :> clean_and_convert(row, "variant: Taper(cm)", "float"))
    @@ ("variant:boardWidth" :> clean_and_convert(row, "variant:boardwidth(cm)", "string"))
    @@ ("variant:bootLengthMax" :>
          clean_and_convert(row, "variant:bootlength-max(cm)", "float"))
    @@ ("variant:effectiveEdge" :>
          clean_and_convert(row, "variant:effective edge(cm)", "float"))
    @@ ("variant:averageSidecutRadius" :>
          clean_and_convert(row, "variant:average sidecut radius(m)", "string"))
    @@ ("variant:setback" :> clean_and_convert(row, "variant: setback(cm)", "float"))
    @@ ("variant:flex" :> clean_and_convert(row, "variant:flex", "string"))
    @@ ("variant:stanceMin" :> clean_and_convert(row, "variant: stance-min(cm)", "float"))
    @@ ("variant:stanceMax" :> clean_and_convert(row, "variant: Stance-max(cm)", "float"))
    @@ ("variant:weightKg" :> clean_and_convert(row, "variant: Weight(kg)", "float"))
    @@ ("variant:bindingSizeVariant" :>
          clean_and_convert(row, "variant:bindingsize", "string"))
    @@ ("variant:riderLengthMin" :>
          clean_and_convert(row, "variant:riderlength-min", "float"))
    @@ ("variant:riderLengthMax" :>
          clean_and_convert(row, "variant:riderlength-max", "float"))
    @@ ("variant:riderWeightMin" :>
          clean_and_convert(row, "variant:riderlength-max", "float"))
    @@ ("variant:riderWeightMax" :>
          clean_and_convert(row, "variant:riderlength-max", "float"))

option_fields(row, is_first, group_cols, value_cols) ==
    LET folded == combine_option_groups_and_values(row, group_cols, value_cols) IN
    ("optionGroups" :> IF is_first THEN Str(folded[1]) ELSE Empty)
    @@ ("optionValues" :> Str(folded[2]))

tab1_fields(row) ==
    LET tab1_bars == parse_and_process_bars(row, tab1_bars_info, 1) IN
    ("variant:optionTab1Label" :> Lit("Rider level"))
    @@ ("variant:optionTab1Visible" :> PyBool(should_tab_be_visible(tab1_bars)))
    @@ ("variant:optionTab1Bar1Name" :> tab1_bars[1].name)
    @@ ("variant:optionTab1Bar1Visible" :> PyBool(tab1_bars[1].visible))
    @@ ("variant:optionTab1Bar1MinLabel" :> tab1_bars[1].minLabel)
    @@ ("variant:optionTab1Bar1MaxLabel" :> tab1_bars[1].maxLabel)
    @@ ("variant:optionTab1Bar1Min" :> tab1_bars[1].min)
    @@ ("variant:optionTab1Bar1Max" :> tab1_bars[1].max)
    @@ ("variant:optionTab1Bar1Rating" :> tab1_bars[1].rating)
    @@ ("variant:optionTab1Bar2Name" :> tab1_bars[2].name)
    @@ ("variant:optionTab1Bar2Visible" :> PyBool(tab1_bars[2].visible))
    @@ ("variant:optionTab1Bar2MinLabel" :> tab1_bars[2].minLabel)
    @@ ("variant:optionTab1Bar2MaxLabel" :> tab1_bars[2].maxLabel)
    @@ ("variant:optionTab1Bar2Min" :> tab1_bars[2].min)
    @@ ("variant:optionTab1Bar2Max" :> tab1_bars[2].max)
    @@ ("variant:optionTab1Bar2Rating" :> tab1_bars[2].rating)

tab2_fields(row) ==
    LET tab2_bars == parse_and_process_bars(row, tab2_bars_info, 2) IN
    ("variant:optionTab2Label" :> Lit("Terrain"))
    @@ ("variant:optionTab2Visible" :> PyBool(should_tab_be_visible(tab2_bars)))
    @@ ("variant:optionTab2Bar1Name" :> tab2_bars[1].name)
    @@ ("variant:optionTab2Bar1Visible" :> PyBool(tab2_bars[1].visible))
    @@ ("variant:optionTab2Bar1MinLabel" :> tab2_bars[1].minLabel)
    @@ ("variant:optionTab2Bar1MaxLabel" :> tab2_bars[1].maxLabel)
    @@ ("variant:optionTab2Bar1Rating" :> tab2_bars[1].rating)
    @@ ("variant:optionTab2Bar2Name" :> tab2_bars[2].name)
    @@ ("variant:optionTab2Bar2Visible" :> PyBool(tab2_bars[2].visible))
    @@ ("variant:optionTab2Bar2MinLabel" :> tab2_bars[2].minLabel)
    @@ ("variant:optionTab2Bar2MaxLabel" :> tab2_bars[2].maxLabel)
    @@ ("variant:optionTab2Bar2Rating" :> tab2_bars[2].rating)
    @@ ("variant:optionTab2Bar3Name" :> tab2_bars[3].name)
    @@ ("variant:optionTab2Bar3Visible" :> PyBool(tab2_bars[3].visible))
    @@ ("variant:optionTab2Bar3MinLabel" :> tab2_bars[3].minLabel)
    @@ ("variant:optionTab2Bar3MaxLabel" :> tab2_bars[3].maxLabel)
    @@ ("variant:optionTab2Bar3Rating" :> tab2_bars[3].rating)

\* the dict appended to all_rows for one source row
new_row(row, is_first, group_cols, value_cols) ==
    product_fields(row, is_first)
        @@ general_fields(row)
        @@ option_fields(row, is_first, group_cols, value_cols)
        @@ dimension_fields(row)
        @@ tab1_fields(row)
        @@ tab2_fields(row)

----------------------------------------------------------------------------
(* convert_source_to_products: columns, option columns, groupby('slug') *)

\* the fixed part of `columns`
columns ==
    << "name", "slug", "description", "assets", "facets", "optionGroups",
       "optionValues", "sku", "price", "taxCategory", "stockOnHand",
       "trackInventory", "variantAssets", "variantFacets",
       "product:brand", "product:warranty", "product:eanCode", "product:quote",
       "product:quoteOwner", "product:boardCategory", "product:terrain",
       "product:camberProfile", "product:profile", "product:baseProfile",
       "product:rider", "product:taperProfile", "product:bindingSize",
       "product:bindingMount", "product:edges", "product:sidewall",
       "product:core", "product:layup1", "product:layup2", "product:layup3",
       "product:boardbase",
       "variant:descriptionTab1Label", "variant:descriptionTab1Visible",
       "variant:descriptionTab1Content", "variant:shortdescription",
       "variant:optionTab1Label", "variant:optionTab1Visible",
       "variant:optionTab1Bar1Name", "variant:optionTab1Bar1Visible",
       "variant:optionTab1Bar1Min", "variant:optionTab1Bar1Max",
       "variant:optionTab1Bar1MinLabel", "variant:optionTab1Bar1MaxLabel",
       "variant:optionTab1Bar1Rating",
       "variant:optionTab1Bar2Name", "variant:optionTab1Bar2Visible",
       "variant:optionTab1Bar2Min", "variant:optionTab1Bar2Max",
       "variant:optionTab1Bar2MinLabel", "variant:optionTab1Bar2MaxLabel",
       "variant:optionTab1Bar2Rating",
       "variant:optionTab2Label", "variant:optionTab2Visible",
       "variant:optionTab2Bar1Name", "variant:optionTab2Bar1Visible",
       "variant:optionTab2Bar1MinLabel", "variant:optionTab2Bar1MaxLabel",
       "variant:optionTab2Bar1Rating",
       "variant:optionTab2Bar2Name", "variant:optionTab2Bar2Visible",
       "variant:optionTab2Bar2MinLabel", "variant:optionTab2Bar2MaxLabel",
       "variant:optionTab2Bar2Rating",
       "variant:optionTab2Bar3Name", "variant:optionTab2Bar3Visible",
       "variant:optionTab2Bar3MinLabel", "variant:optionTab2Bar3MaxLabel",
       "variant:optionTab2Bar3Rating",
       "variant:noseWidth", "variant:waistWidth", "variant:tailWidth",
       "variant:taper", "variant:boardWidth", "variant:bootLengthMax",
       "variant:effectiveEdge", "variant:averageSidecutRadius",
       "variant:setback", "variant:stanceMin", "variant:stanceMax",
       "variant:weightKg", "variant:bindingSizeVariant",
       "variant:riderLengthMin", "variant:riderLengthMax",
       "variant:riderWeightMin", "variant:riderWeightMax",
       "variant:frontPhoto", "variant:backPhoto" >>

\* pd.DataFrame(all_rows, columns=columns) followed by fillna('')
DataFrame(rows) ==
    [k \in 1..Len(rows) |->
        [c \in Range(columns) |-> Get(rows[k], c, Empty)]]

\* the columns of the sheet
SheetColumns(data) == IF data = <<>> THEN {} ELSE DOMAIN data[1]

\* a sequence of the option columns in the order of the sheet (all the
\* modelled sheets hold them in the order of OptionGroupNames, OptionValueNames)
RECURSIVE InSheet(_, _)
InSheet(names, present) ==
    IF names = <<>> THEN <<>>
    ELSE (IF Head(names) \in present THEN <<Head(names)>> ELSE <<>>)
             \o InSheet(Tail(names), present)

GroupColumnsOf(data) ==
    option_group_columns(InSheet(OptionGroupNames \o OptionValueNames, SheetColumns(data)))

ValueColumnsOf(data) ==
    option_value_columns(InSheet(OptionGroupNames \o OptionValueNames, SheetColumns(data)))

RECURSIVE IndicesOf(_, _, _)
\* the indices (from i on) of the rows whose slug is key, ascending
IndicesOf(data, key, i) ==
    IF i > Len(data) THEN <<>>
    ELSE (IF ~isna(data[i]["slug"]) /\ data[i]["slug"].s = key THEN <<i>> ELSE <<>>)
             \o IndicesOf(data, key, i + 1)

\* the keys of groupby('slug'): sorted, NaN left out
group_keys(data) ==
    Sorted({data[i]["slug"].s : i \in {k \in 1..Len(data) : ~isna(data[k]["slug"])}})

\* source_data.groupby('slug'), as the list of groups it iterates over
groupby(data) ==
    LET keys == group_keys(data) IN
    [n \in 1..Len(keys) |-> [slug |-> keys[n], index |-> IndicesOf(data, keys[n], 1)]]

\* the warnings printed for a dict made with first_row set
warnings(row, slug) ==
    (IF row["optionGroups"] = Empty
     THEN <<[level |-> "Warning", field |-> "optionGroups", slug |-> slug]>> ELSE <<>>)
    \o (IF row["optionValues"] = Empty
        THEN <<[level |-> "Warning", field |-> "optionValues", slug |-> slug]>> ELSE <<>>)

----------------------------------------------------------------------------
(* Sheets given to convert_source_to_products *)

MaxRows == 3

Word(w) == Str(<<w>>)

\* what a row holds besides its slug and name: the cells of a variant
Payloads ==
    { [sku |-> Word("K"), price |-> Num(5, 1),   og |-> Word("Size"), ov |-> Word("M"),
       level |-> Num(7, 10),  nose |-> Str(<<"3", "0", ".", "5">>)],
      [sku |-> NaN,       price |-> Num(75, 10), og |-> NaN,          ov |-> Word("L"),
       level |-> Num(150, 1), nose |-> NaN] }

SheetRow(slug, name, p) ==
    ("slug" :> slug)
    @@ ("name" :> name)
    @@ ("sku" :> p.sku)
    @@ ("price" :> p.price)
    @@ ("optionGroups #1" :> p.og)
    @@ ("optionValues #1" :> p.ov)
    @@ ("variant:Riderlevel" :> p.level)
    @@ ("variant:nose width(cm)" :> p.nose)
    @@ ("product:Brand" :> Word("Acme"))
    @@ ("product:shortdescription HTML:en" :> Str(<<"<", "i", ">", "x">>))
    @@ ("Facets" :> Str(<<"a", ":", "b">>))
    @@ ("assets" :> Word("a.jpg"))

SheetRows ==
    {SheetRow(slug, name, p) :
        slug \in {NaN, Str(<<"a">>), Str(<<"b">>)},
        name \in {NaN, Word("N")},
        p \in Payloads}

\* the sheets of exactly n rows
Sheets(n) == [1..n -> SheetRows]

\* rows for the rating bars: one product, the five rating cells varied, the
\* column 'variant:Flex' in the sheet or not
BarRow(level, flex, powder, mountain, freestyle) ==
    ("slug" :> Str(<<"a">>))
    @@ ("name" :> Word("N"))
    @@ ("variant:Riderlevel" :> level)
    @@ (IF flex = None THEN <<>> ELSE ("variant:Flex" :> flex))
    @@ ("variant:Powder" :> powder)
    @@ ("variant:All mountain" :> mountain)
    @@ ("variant:Freestyle" :> freestyle)

Tab1Cells == {NaN, Num(0, 1), Num(5, 10), Str(<<"4", "5", "%">>), Str(<<"x">>)}

BarRows ==
    {BarRow(level, flex, powder, mountain, freestyle) :
        level \in Tab1Cells,
        flex \in Tab1Cells \cup {None},
        powder \in {NaN, Num(5, 10)},
        mountain \in {NaN, Str(<<"0">>)},
        freestyle \in {NaN, Num(-5, 1), Num(150, 1)}}

\* a sheet of one such row, or of the row twice (a primary and a variant)
BarSheets == {<<row>> : row \in BarRows} \cup {<<row, row>> : row \in BarRows}

\* rows of a sheet whose price and nose width cells convert or do not
CellRow(slug, price, nose) ==
    ("slug" :> slug)
    @@ ("name" :> Word("N"))
    @@ ("sku" :> Str(<<" ", "K">>))
    @@ ("price" :> price)
    @@ ("variant:nose width(cm)" :> nose)

CellRows ==
    {CellRow(slug, price, nose) :
        slug \in {Str(<<"a">>), Str(<<"b">>)},
        price \in {NaN, Num(5, 1), Str(<<"1", "-", "2">>), Str(<<"x">>)},
        nose \in {Str(<<"3", "0", ".", "5">>), Str(<<"-">>)}}

\* new_row tabulated over the rows of the modelled sheets, whose option
\* columns are those of the row
row_dicts ==
    [row \in SheetRows \cup BarRows \cup CellRows |->
        [is_first \in BOOLEAN |->
            new_row(row, is_first, GroupColumnsOf(<<row>>), ValueColumnsOf(<<row>>))]]

----------------------------------------------------------------------------
(* The loops *)

RatingIdle ==
    /\ value = NaN
    /\ rating = NaN
    /\ rpc = "idle"

OptionIdle ==
    /\ sheet_columns = <<>>
    /\ option_row = <<>>
    /\ combined = <<>>
    /\ opc = "idle"

FacetIdle ==
    /\ facet_row = <<>>
    /\ facet_column_list = <<>>
    /\ facets_out = <<>>
    /\ fpc = "idle"

HtmlIdle ==
    /\ html_in = NaN
    /\ html_parts = <<>>
    /\ cleaned = <<>>
    /\ cleaned_again = <<>>
    /\ hpc = "idle"

CellIdle ==
    /\ cell_row = <<>>
    /\ cell_type = ""
    /\ converted = NaN
    /\ diagnostics = 0
    /\ cpc = "idle"

ConvertIdle ==
    /\ source_data = <<>>
    /\ option_columns = <<>>
    /\ grouped_data = <<>>
    /\ all_rows = <<>>
    /\ mapped = <<>>
    /\ log = <<>>
    /\ first_row = FALSE
    /\ group_no = 0
    /\ rows_done = 0
    /\ converted_data = <<>>
    /\ pc = "idle"

\* for slug, group in grouped_data: first_row = True
NextGroup ==
    /\ pc = "groups" \/ (pc = "rows" /\ rows_done = Len(grouped_data[group_no].index))
    /\ group_no < Len(grouped_data)
    /\ group_no' = group_no + 1
    /\ rows_done' = 0
    /\ first_row' = TRUE
    /\ pc' = "rows"
    /\ UNCHANGED <<source_data, option_columns, grouped_data, all_rows, mapped, log,
                   converted_data, function_vars>>

\* the pass without its last statement, first_row = False
MapRow_keeps_first_row ==
    /\ pc = "rows"
    /\ rows_done < Len(grouped_data[group_no].index)
    /\ LET index == grouped_data[group_no].index[rows_done + 1]
           slug  == grouped_data[group_no].slug
           made  == row_dicts[source_data[index]][first_row]
       IN  /\ all_rows' = Append(all_rows, made)
           /\ mapped' = Append(mapped,
                               [index |-> index, slug |-> slug, first_row |-> first_row])
           /\ log' = IF first_row THEN log \o warnings(made, slug) ELSE log
    /\ rows_done' = rows_done + 1
    /\ UNCHANGED <<source_data, option_columns, grouped_data, group_no, first_row,
                   converted_data, pc, function_vars>>

\* one pass of: for _, row in group.iterrows()
MapRow ==
    /\ pc = "rows"
    /\ rows_done < Len(grouped_data[group_no].index)
    /\ LET index == grouped_data[group_no].index[rows_done + 1]
           slug  == grouped_data[group_no].slug
           made  == row_dicts[source_data[index]][first_row]
       IN  /\ all_rows' = Append(all_rows, made)
           /\ mapped' = Append(mapped,
                               [index |-> index, slug |-> slug, first_row |-> first_row])
           /\ log' = IF first_row THEN log \o warnings(made, slug) ELSE log
    /\ first_row' = FALSE
    /\ rows_done' = rows_done + 1
    /\ UNCHANGED <<source_data, option_columns, grouped_data, group_no,
                   converted_data, pc, function_vars>>

\* after the loops: the DataFrame is built (and written by the caller's file layer)
Finish ==
    /\ pc = "groups" \/ (pc = "rows" /\ rows_done = Len(grouped_data[group_no].index))
    /\ group_no = Len(grouped_data)
    /\ converted_data' = DataFrame(all_rows)
    /\ pc' = "done"
    /\ UNCHANGED <<source_data, option_columns, grouped_data, all_rows, mapped, log,
                   first_row, group_no, rows_done, function_vars>>

----------------------------------------------------------------------------
(* The specification of convert_source_to_products *)

\* the state when the loops are reached, for the sheets of a set
Loaded(sheets) ==
    /\ source_data \in sheets
    /\ option_columns = <<GroupColumnsOf(source_data), ValueColumnsOf(source_data)>>
    /\ grouped_data = groupby(source_data)
    /\ all_rows = <<>>
    /\ mapped = <<>>
    /\ log = <<>>
    /\ first_row = FALSE
    /\ group_no = 0
    /\ rows_done = 0
    /\ converted_data = <<>>
    /\ pc = "groups"
    /\ RatingIdle
    /\ OptionIdle
    /\ FacetIdle
    /\ HtmlIdle
    /\ CellIdle

Init == Loaded(UNION {Sheets(n) : n \in 1..MaxRows})

Next == NextGroup \/ MapRow \/ Finish

Spec == Init /\ [][Next]_vars

\* the sheets whose rows hold the cells of one variant
InitLive ==
    LET rows == {row \in SheetRows : ~isna(row["sku"])}
    IN  Loaded(UNION {[1..n -> rows] : n \in 1..MaxRows})

\* the loops are sequential code: a step that can be taken is taken
SpecLive == InitLive /\ [][Next]_vars /\ WF_vars(Next)

InitBars == Loaded(BarSheets)

SpecBars == InitBars /\ [][Next]_vars

----------------------------------------------------------------------------
(* Inputs of the rating parser *)

MaxRatingLen == 3

RatingChars == {"0", "4", "5", "7", ".", "%", " ", "-", "x"}

RECURSIVE SeqsUpTo(_, _)
\* all sequences over S of length at most n
SeqsUpTo(S, n) ==
    IF n = 0 THEN {<<>>}
    ELSE LET shorter == SeqsUpTo(S, n - 1) IN
         shorter \cup {Append(q, c) : q \in {r \in shorter : Len(r) = n - 1}, c \in S}

RatingNumbers ==
    {Num(n, d) : n \in {-50, 0, 1, 5, 7, 10, 11, 45, 100, 150}, d \in {1, 10}}

RatingInputs ==
    {NaN, None, Bool(TRUE), Bool(FALSE)}
        \cup RatingNumbers
        \cup {Str(q) : q \in SeqsUpTo(RatingChars, MaxRatingLen)}

InitRating ==
    /\ ConvertIdle
    /\ OptionIdle
    /\ FacetIdle
    /\ HtmlIdle
    /\ CellIdle
    /\ value \in RatingInputs
    /\ rating = NaN
    /\ rpc = "start"

ParseRating ==
    /\ rpc = "start"
    /\ rating' = parse_rating(value)
    /\ rpc' = "parsed"
    /\ UNCHANGED <<value, convert_vars, option_vars, facet_vars, html_vars, cell_vars>>

ParseRatingOld ==
    /\ rpc = "start"
    /\ rating' = parse_rating_old(value)
    /\ rpc' = "parsed_old"
    /\ UNCHANGED <<value, convert_vars, option_vars, facet_vars, html_vars, cell_vars>>

NextRating == ParseRating \/ ParseRatingOld

SpecRating == InitRating /\ [][NextRating]_vars

----------------------------------------------------------------------------
(* The option folder on its own: sheets of option columns *)

MaxPairs == 2

GroupWords == <<"Color", "Size", "Length", "Width">>

ValueWords == <<"Red", "M", "L", "XL">>

\* the cells a group column may hold: empty, blank, its word
GroupCells(word) == <<NaN, Str(<<" ">>), Str(<<word>>)>>

\* the cells a value column may hold: empty, its word, its word padded
ValueCells(word) == <<NaN, Str(<<word>>), Str(<<" ", word, " ">>)>>

\* the arrangements of some of the numbers 1..n
Arrangements(n) ==
    {q \in UNION {[1..m -> 1..n] : m \in 0..n} :
        \A i, j \in 1..Len(q) : i # j => q[i] # q[j]}

\* the rows over the option columns with the suffixes of gs and vs, each
\* column holding a cell made of its own word
OptionRows(gs, vs) ==
    {[col \in DOMAIN g |-> GroupCells(GroupWords[Suffix(col, OptionGroupNames)])[g[col]]]
        @@ [col \in DOMAIN v |-> ValueCells(ValueWords[Suffix(col, OptionValueNames)])[v[col]]] :
        g \in [{OptionGroupNames[n] : n \in Range(gs)} -> 1..3],
        v \in [{OptionValueNames[n] : n \in Range(vs)} -> 1..3]}

InitOptions ==
    /\ ConvertIdle
    /\ RatingIdle
    /\ FacetIdle
    /\ HtmlIdle
    /\ CellIdle
    /\ \E gs \in Arrangements(MaxPairs), vs \in Arrangements(MaxPairs) :
           /\ sheet_columns = [i \in 1..Len(gs) |-> OptionGroupNames[gs[i]]]
                                 \o [i \in 1..Len(vs) |-> OptionValueNames[vs[i]]]
           /\ option_row \in OptionRows(gs, vs)
    /\ combined = <<>>
    /\ opc = "start"

\* the columns are found and sorted, then the row is folded
Combine ==
    /\ opc = "start"
    /\ combined' = combine_option_groups_and_values(
                        option_row,
                        option_group_columns(sheet_columns),
                        option_value_columns(sheet_columns))
    /\ opc' = "combined"
    /\ UNCHANGED <<sheet_columns, option_row, convert_vars, rating_vars, facet_vars, html_vars, cell_vars>>

NextOptions == Combine

SpecOptions == InitOptions /\ [][NextOptions]_vars

----------------------------------------------------------------------------
(* The facet folders on their own *)

MaxParts == 3

\* comma-separated parts of a facet cell
FacetParts ==
    { <<"r", "e", "d">>, <<" ", "s", "i", "z", "e", ":", "M">>, <<"L">>,
      <<"a", ":", "b">> }

FacetTexts ==
    {Join(parts, <<",">>) : parts \in UNION {[1..n -> FacetParts] : n \in 0..MaxParts}}

\* cells of a second facet column
MoreFacetCells == {NaN, Str(<<"L">>), Str(<<"r", "e", "d">>)}

\* a sheet row with the cell in the column of either script
FacetRow(cell, more) ==
    ("facets.1" :> cell) @@ ("facets.2" :> more) @@ ("Facets" :> cell)

\* [col for col in source_data.columns if col.startswith('facets.')]
FacetColumns(cols) ==
    SelectSeq(cols, LAMBDA col : col \in {"facets.1", "facets.2"})

FacetSheetColumns ==
    { <<"Facets", "facets.1">>, <<"facets.1", "Facets", "facets.2">>,
      <<"facets.2", "facets.1", "Facets">> }

InitFacets ==
    /\ ConvertIdle
    /\ RatingIdle
    /\ OptionIdle
    /\ HtmlIdle
    /\ CellIdle
    /\ \E cols \in FacetSheetColumns :
           /\ facet_column_list = FacetColumns(cols)
           /\ facet_row \in
                  {[col \in Range(cols) |-> FacetRow(cell, more)[col]] :
                      cell \in {NaN} \cup {Str(s) : s \in FacetTexts},
                      more \in MoreFacetCells}
    /\ facets_out = <<>>
    /\ fpc = "start"

\* map_pim.py
ProcessFacets ==
    /\ fpc = "start"
    /\ facets_out' = process_facets(facet_row)
    /\ fpc' = "folded"
    /\ UNCHANGED <<facet_row, facet_column_list, convert_vars, rating_vars, option_vars, html_vars, cell_vars>>

\* map_pim_old.py, whose facet_column_list are the columns named 'facets.*'
ProcessFacetsOld ==
    /\ fpc = "start"
    /\ facets_out' = process_facets_old(facet_row, facet_column_list)
    /\ fpc' = "folded_old"
    /\ UNCHANGED <<facet_row, facet_column_list, convert_vars, rating_vars, option_vars, html_vars, cell_vars>>

NextFacets == ProcessFacets \/ ProcessFacetsOld

SpecFacets == InitFacets /\ [][NextFacets]_vars

----------------------------------------------------------------------------
(* The sanitizer on its own: texts written from pieces *)

MaxPieces == 3

\* pieces of text: words, tags with and without an allowed name, and
\* fragments of tags
HtmlPieces ==
    { <<"h", "i">>,
      <<"x">>,
      <<"<", "b", ">">>,
      <<"<", "/", "b", ">">>,
      <<"<", "s", "c", "r", "i", "p", "t", ">">>,
      <<"<", "/", "s", "c", "r", "i", "p", "t", ">">>,
      <<"<", "b", "r", "/", ">">>,
      <<"<", "b", "x", ">">>,
      <<"<", "b", " ", "c", ">">>,
      <<"<", "b">>,
      <<"<", ">">>,
      <<"y", ">">> }

\* '<b>hi</b><script>x</script>', piece by piece
ScriptExample ==
    << <<"<", "b", ">">>,
       <<"h", "i">>,
       <<"<", "/", "b", ">">>,
       <<"<", "s", "c", "r", "i", "p", "t", ">">>,
       <<"x">>,
       <<"<", "/", "s", "c", "r", "i", "p", "t", ">">> >>

UpperChar(c) ==
    IF IsLetter(c) /\ ~IsUpper(c) THEN Ascii[Ord(c) - FirstLower + FirstUpper] ELSE c

Upper(s) == [i \in 1..Len(s) |-> UpperChar(s[i])]

Capital(s) == [i \in 1..Len(s) |-> IF i = 1 THEN UpperChar(s[i]) ELSE s[i]]

\* the names of allowed_tags
AllowedTagNames == {w \in AllowedNames : w[1] # "/"}

\* every allowed name as an opening and a closing tag, in lower, upper and
\* mixed case
TagForms ==
    UNION { { <<"<">> \o w \o <<">">>, <<"<", "/">> \o w \o <<">">> } :
              w \in UNION {{n, Upper(n), Capital(n)} : n \in AllowedTagNames} }

RECURSIVE Flatten(_)
\* the text written from the pieces
Flatten(parts) ==
    IF parts = <<>> THEN <<>> ELSE Head(parts) \o Flatten(Tail(parts))

HtmlInputs ==
    UNION {[1..n -> HtmlPieces] : n \in 0..MaxPieces}
        \cup {ScriptExample}
        \cup {<<tag>> : tag \in TagForms}

InitHtml ==
    /\ ConvertIdle
    /\ RatingIdle
    /\ OptionIdle
    /\ FacetIdle
    /\ CellIdle
    /\ \/ /\ html_parts \in HtmlInputs
          /\ html_in = Str(Flatten(html_parts))
       \/ /\ html_parts = <<>>
          /\ html_in = NaN
    /\ cleaned = <<>>
    /\ cleaned_again = <<>>
    /\ hpc = "start"

\* clean_html called on the text
CleanHtml ==
    /\ hpc = "start"
    /\ cleaned' = clean_html(html_in)
    /\ hpc' = "cleaned"
    /\ UNCHANGED <<html_in, html_parts, cleaned_again, convert_vars, rating_vars,
                   option_vars, facet_vars, cell_vars>>

\* clean_html applied to the text it returned
CleanHtmlAgain ==
    /\ hpc = "cleaned"
    /\ cleaned_again' = clean_html(Str(cleaned))
    /\ hpc' = "again"
    /\ UNCHANGED <<html_in, html_parts, cleaned, convert_vars, rating_vars,
                   option_vars, facet_vars, cell_vars>>

NextHtml == CleanHtml \/ CleanHtmlAgain

SpecHtml == InitHtml /\ [][NextHtml]_vars

----------------------------------------------------------------------------
(* The cell converter: on its own, and in sheets with cells that do not convert *)

\* cells given to clean_and_convert
CellValues ==
    { NaN, None, Num(5, 1), Num(-75, 10), Num(1234567, 1000000), Bool(TRUE),
      Str(<<"1", "2">>),
      Str(<<"-", "3">>),
      Str(<<"1", "-", "2">>),
      Str(<<"x">>),
      Str(<<"-">>),
      Str(<<"3", "0", ".", "5">>),
      Str(<<"1", ".", "2", ".", "3">>),
      Str(<<" ", "7", " ">>),
      Str(<<"y", "e", "s">>),
      Str(<<>>) }

DataTypes == {"int", "float", "bool", "string", "text", "relation", "date"}

\* the row holds the cell under the key "cell", or has no such column
InitCell ==
    /\ ConvertIdle
    /\ RatingIdle
    /\ OptionIdle
    /\ FacetIdle
    /\ HtmlIdle
    /\ cell_row \in {<<>>} \cup {("cell" :> v) : v \in CellValues}
    /\ cell_type \in DataTypes
    /\ converted = NaN
    /\ diagnostics = 0
    /\ cpc = "start"

\* clean_and_convert(row, key, data_type)
CleanAndConvert ==
    /\ cpc = "start"
    /\ converted' = clean_and_convert(cell_row, "cell", cell_type)
    /\ diagnostics' = error_lines(cell_row, "cell", cell_type)
    /\ cpc' = "converted"
    /\ UNCHANGED <<cell_row, cell_type, convert_vars, rating_vars, option_vars,
                   facet_vars, html_vars>>

CellSheets == {<<row>> : row \in CellRows} \cup {<<r1, r2>> : r1 \in CellRows, r2 \in CellRows}

InitCells == InitCell \/ Loaded(CellSheets)

NextCells == CleanAndConvert \/ NextGroup \/ MapRow \/ Finish

SpecCells == InitCells /\ [][NextCells]_vars

----------------------------------------------------------------------------
(* Properties of convert_source_to_products *)

\* the name cell of a source row is present and not blank
Named(row) == ~isna(row["name"]) /\ Strip(ToStr(row["name"])) # <<>>

\* the rows of the sheet that share the slug cell of row i
GroupOf(i) == {j \in 1..Len(source_data) : source_data[j]["slug"] = source_data[i]["slug"]}

NamedIn(rows) == {j \in rows : Named(source_data[j])}

Least(S) == CHOOSE x \in S : \A y \in S : x <= y

\* the records made from the rows of a set
RecordsOf(rows) == {k \in 1..Len(mapped) : mapped[k].index \in rows}

\* C1: once all groups are processed no two records of the output table
\* carry the same sku.
C1_SkuUnique ==
    pc = "done" =>
        \A j, k \in 1..Len(converted_data) :
            j # k => converted_data[j]["sku"] # converted_data[k]["sku"]

\* C2: in a group with a named row, the record mapped as primary is the one
\* of the first named row, and every other row is mapped as a variant.
C2_PrimaryIsFirstNamedRow ==
    \A k \in 1..Len(mapped) :
        LET named == NamedIn(GroupOf(mapped[k].index)) IN
        named # {} => (mapped[k].first_row <=> mapped[k].index = Least(named))

\* C3: a group without a named row gives no record and exactly one warning,
\* and the rows of the other groups (those with a slug) are all in the output.
C3_UnnamedGroupSkipped ==
    pc = "done" =>
        \A i \in 1..Len(source_data) :
            IF NamedIn(GroupOf(i)) = {}
            THEN /\ RecordsOf(GroupOf(i)) = {}
                 /\ \/ isna(source_data[i]["slug"])
                    \/ Cardinality({n \in 1..Len(log) :
                                        log[n].slug = source_data[i]["slug"].s}) = 1
            ELSE isna(source_data[i]["slug"]) \/ RecordsOf({i}) # {}

\* the first row of the sheet with the slug of row i
FirstOf(i) == Least(GroupOf(i))

\* C4: groups come out in the order in which their slug first
\* appears in the sheet, rows within a group in the order of the sheet.
C4_FirstAppearanceOrder ==
    \A j, k \in 1..Len(mapped) :
        j < k =>
            IF mapped[j].slug = mapped[k].slug
            THEN mapped[j].index < mapped[k].index
            ELSE FirstOf(mapped[j].index) < FirstOf(mapped[k].index)

\* the fields of product identity
IdentityFields ==
    {"name", "slug", "description", "assets", "facets", "optionGroups",
     "product:brand", "product:warranty", "product:eanCode", "product:quote",
     "product:quoteOwner", "product:boardCategory", "product:terrain",
     "product:camberProfile", "product:profile", "product:baseProfile",
     "product:rider", "product:taperProfile", "product:bindingSize",
     "product:bindingMount", "product:edges", "product:sidewall",
     "product:core", "product:layup1", "product:layup2", "product:layup3",
     "product:boardbase"}

\* record k of recs is a variant record: identity blank, the cells of its own
\* row in its price, option values, nose width and rider-level bar
VariantRecord(recs, k) ==
    LET row == source_data[mapped[k].index] IN
    /\ \A f \in IdentityFields : recs[k][f] = Empty
    /\ recs[k]["price"] = row["price"]
    /\ recs[k]["optionValues"] =
           (IF isna(row["optionValues #1"]) THEN Empty ELSE row["optionValues #1"])
    /\ recs[k]["variant:noseWidth"] =
           (IF isna(row["variant:nose width(cm)"]) THEN Empty ELSE Num(305, 10))
    /\ recs[k]["variant:optionTab1Bar1Rating"] =
           (IF row["variant:Riderlevel"] = Num(7, 10) THEN Num(70, 1)
            ELSE row["variant:Riderlevel"])

VariantRecords(recs) ==
    \A k \in 1..Len(recs) : ~mapped[k].first_row => VariantRecord(recs, k)

\* C5: every group with records has exactly one primary record, and every
\* other record of it has blank identity fields and the variant fields of
\* its own row.
C5_OnePrimaryRestVariants ==
    /\ \A k \in 1..Len(mapped) :
           Cardinality({j \in 1..Len(mapped) :
                           mapped[j].slug = mapped[k].slug /\ mapped[j].first_row}) = 1
    /\ VariantRecords(all_rows)
    /\ pc = "done" => VariantRecords(converted_data)

\* a finished run with a variant record whose price differs from that of the
\* primary record of its group
C5_Witness ==
    /\ pc = "done"
    /\ \E j, k \in 1..Len(mapped) :
           /\ mapped[j].slug = mapped[k].slug
           /\ mapped[j].first_row /\ ~mapped[k].first_row
           /\ converted_data[k]["name"] = Empty
           /\ Named(source_data[mapped[k].index])
           /\ converted_data[k]["price"] # converted_data[j]["price"]

----------------------------------------------------------------------------
(* Properties of parse_rating *)

Parsed == rpc \in {"parsed", "parsed_old"}

\* the number a rating argument stands for: itself, or what its text without
\* '%' and surrounding blanks reads as; NaN when it stands for none
Meant(v) ==
    IF v.t = "num" THEN v
    ELSE IF v.t = "str" /\ IsFloatText(Strip(Remove(v.s, "%")))
         THEN StrToFloat(Strip(Remove(v.s, "%")))
    ELSE NaN

\* C6: a number or numeric text r gives r*100 when 0 < r <= 1 and r itself
\* when r > 1 ("45%" gives 45, "0.7" gives 70); None, empty and non-numeric
\* arguments give NaN.
C6_ParseRatingScale ==
    Parsed =>
        LET m == Meant(value) IN
        /\ (m.t = "num" /\ 0 < m.num /\ m.num <= m.den)
               => (rating.t = "num" /\ rating.num * m.den = 100 * m.num * rating.den)
        /\ (m.t = "num" /\ m.num > m.den) => rating = m
        /\ (value.t \in {"nan", "none", "str"} /\ m.t = "nan") => rating = NaN
        /\ value = Str(<<"4", "5", "%">>) => rating = Num(45, 1)
        /\ value = Str(<<"0", ".", "7">>) => rating = Num(70, 1)

\* the rating of the text "0.7" is 70
C6_Witness ==
    /\ rpc = "parsed"
    /\ value = Str(<<"0", ".", "7">>)
    /\ rating = Num(70, 1)

\* C7 as stated: every value parse_rating returns is NaN or a number from 0
\* to 100.
C7_RatingInRange ==
    Parsed =>
        \/ rating = NaN
        \/ rating.t = "num" /\ 0 <= rating.num /\ rating.num <= 100 * rating.den

\* C7 amended: every value returned is NaN or a number; it is from 0 to 100
\* when the argument stands for a number from 0 to 100, and an argument
\* above 100 is returned as it is.
C7_RatingInRangeOfArgument ==
    Parsed =>
        LET m == Meant(value) IN
        /\ rating.t \in {"nan", "num"}
        /\ (m.t = "num" /\ 0 <= m.num /\ m.num <= 100 * m.den)
               => \/ rating = NaN
                  \/ 0 <= rating.num /\ rating.num <= 100 * rating.den
        /\ (m.t = "num" /\ m.num > 100 * m.den) => rating = m

\* 150 parsed to 150
C7_Witness ==
    /\ rpc = "parsed"
    /\ value = Num(150, 1)
    /\ rating = Num(150, 1)

----------------------------------------------------------------------------
(* Properties of the rating bars in the output records *)

\* the field of a bar's flag: <<tab, bar>> to the names of its source column
\* and of its Visible field
BarFields ==
    { <<1, "variant:Riderlevel", "variant:optionTab1Bar1Visible">>,
      <<1, "variant:Flex", "variant:optionTab1Bar2Visible">>,
      <<2, "variant:Powder", "variant:optionTab2Bar1Visible">>,
      <<2, "variant:All mountain", "variant:optionTab2Bar2Visible">>,
      <<2, "variant:Freestyle", "variant:optionTab2Bar3Visible">> }

TabField(tab) ==
    IF tab = 1 THEN "variant:optionTab1Visible" ELSE "variant:optionTab2Visible"

\* the cell stands for a number greater than zero
Positive(cell) == Meant(cell).t = "num" /\ Meant(cell).num > 0

Flag(b) == Str(<<IF b THEN "True" ELSE "False">>)

BarsOf(recs) ==
    \A k \in 1..Len(recs) :
        LET row == source_data[mapped[k].index] IN
        /\ \A f \in BarFields : recs[k][f[3]] = Flag(Positive(Get(row, f[2], NaN)))
        /\ \A tab \in {1, 2} :
               recs[k][TabField(tab)] =
                   Flag(\E f \in BarFields : f[1] = tab /\ recs[k][f[3]] = Flag(TRUE))

\* C8: in every output record a tab is visible iff one of its bars is, and a
\* bar is visible iff the rating of its source column is present and above 0.
C8_TabAndBarVisibility ==
    /\ BarsOf(all_rows)
    /\ pc = "done" => BarsOf(converted_data)

\* a record whose first tab is visible through its second bar alone
C8_Witness ==
    /\ pc = "done"
    /\ \E k \in 1..Len(converted_data) :
           /\ converted_data[k]["variant:optionTab1Visible"] = Flag(TRUE)
           /\ converted_data[k]["variant:optionTab1Bar1Visible"] = Flag(FALSE)
           /\ converted_data[k]["variant:optionTab1Bar2Visible"] = Flag(TRUE)
           /\ converted_data[k]["variant:optionTab2Visible"] = Flag(FALSE)

----------------------------------------------------------------------------
(* Properties of combine_option_groups_and_values *)

\* the option columns of one kind that the sheet has
Present(names) == {col \in Range(sheet_columns) : col \in Range(names)}

\* the place of a column among those of its kind, by ascending suffix
Rank(col, names) ==
    1 + Cardinality({d \in Present(names) : Suffix(d, names) < Suffix(col, names)})

\* the number of pairs: the shorter of the two lists of columns
Pairs ==
    Min(Cardinality(Present(OptionGroupNames)), Cardinality(Present(OptionValueNames)))

\* the columns that have a partner of the other kind at the same place
Paired(names) == {col \in Present(names) : Rank(col, names) <= Pairs}

NonEmpty(cell) == cell.t = "str" /\ \E i \in 1..Len(cell.s) : cell.s[i] # " "

\* the paired columns whose cell is non-empty
Kept(names) == {col \in Paired(names) : NonEmpty(option_row[col])}

\* the word of a cell, without the blanks around it
WordOf(cell) == SelectSeq(cell.s, LAMBDA ch : ch # " ")

\* the entries of a folded string
Entries(str) == IF str = <<>> THEN <<>> ELSE Split(str, "|")

\* the string holds the words of the kept columns, and nothing else, in
\* ascending order of suffix
HoldsKept(str, names) ==
    LET kept    == Kept(names)
        entries == Entries(str)
    IN  /\ Len(entries) = Cardinality(kept)
        /\ \A col \in kept :
               LET place == 1 + Cardinality({d \in kept :
                                                Suffix(d, names) < Suffix(col, names)})
               IN  entries[place] = WordOf(option_row[col])

\* C9: over the positionally paired group and value columns, taken in
\* ascending order of numeric suffix, the groups string holds the name of a
\* group exactly when its cell is non-empty and the values string holds a
\* value exactly when its cell is non-empty, whatever the other cell of the
\* pair holds, and both strings keep the column order; groups (Color, Size)
\* with values (Red, M) give ("Color|Size", "Red|M").
C9_OptionFolding ==
    opc = "combined" =>
        /\ HoldsKept(combined[1], OptionGroupNames)
        /\ HoldsKept(combined[2], OptionValueNames)
        /\ (/\ Range(sheet_columns) = {OptionGroupNames[1], OptionGroupNames[2],
                                       OptionValueNames[1], OptionValueNames[2]}
            /\ option_row[OptionGroupNames[1]] = Str(<<"Color">>)
            /\ option_row[OptionGroupNames[2]] = Str(<<"Size">>)
            /\ option_row[OptionValueNames[1]] = Str(<<"Red">>)
            /\ option_row[OptionValueNames[2]] = Str(<<"M">>))
               => combined = << <<"Color", "|", "Size">>, <<"Red", "|", "M">> >>

\* a sheet whose columns are out of suffix order, folded with a value kept
\* beside an empty group and a group kept beside an empty value
C9_Witness ==
    /\ opc = "combined"
    /\ \E i, j \in 1..Len(sheet_columns) :
           /\ i < j
           /\ sheet_columns[i] \in Range(OptionValueNames)
           /\ sheet_columns[j] \in Range(OptionValueNames)
           /\ Suffix(sheet_columns[j], OptionValueNames)
                  < Suffix(sheet_columns[i], OptionValueNames)
    /\ \E g \in Paired(OptionGroupNames), v \in Paired(OptionValueNames) :
           /\ Rank(g, OptionGroupNames) = Rank(v, OptionValueNames)
           /\ ~NonEmpty(option_row[g])
           /\ NonEmpty(option_row[v])
    /\ \E g \in Paired(OptionGroupNames), v \in Paired(OptionValueNames) :
           /\ Rank(g, OptionGroupNames) = Rank(v, OptionValueNames)
           /\ NonEmpty(option_row[g])
           /\ ~NonEmpty(option_row[v])
    /\ \E col \in Paired(OptionGroupNames) : option_row[col] = Str(<<" ">>)

----------------------------------------------------------------------------
(* Properties of process_facets *)

Folded == fpc \in {"folded", "folded_old"}

\* the facet cell "red, size:M,L"
RedSizeML ==
    Str(<<"r", "e", "d", ",", " ", "s", "i", "z", "e", ":", "M", ",", "L">>)

\* the facet cell "L,red,L"
LRedL == Str(<<"L", ",", "r", "e", "d", ",", "L">>)

\* the rows with one facet cell
OneFacetCell(cell) ==
    /\ Folded
    /\ "facets.2" \notin DOMAIN facet_row
    /\ facet_row["facets.1"] = cell
    /\ facet_row["Facets"] = cell

\* C10: the fragments of the facet cells are joined in source order, without
\* removing duplicates or sorting, 'key:v1|v2' for a part with a colon and
\* 'unknown:<part>' for a part without one; the single facet cell
\* "red, size:M,L" folds to "unknown:red|size:M|L".
C10_FacetFolding ==
    /\ OneFacetCell(RedSizeML) =>
           facets_out = <<"u", "n", "k", "n", "o", "w", "n", ":", "r", "e", "d",
                          "|", "s", "i", "z", "e", ":", "M", "|", "L">>
    /\ OneFacetCell(LRedL) =>
           facets_out = <<"u", "n", "k", "n", "o", "w", "n", ":", "L", "|",
                          "u", "n", "k", "n", "o", "w", "n", ":", "r", "e", "d", "|",
                          "u", "n", "k", "n", "o", "w", "n", ":", "L">>

----------------------------------------------------------------------------
(* Properties of clean_html *)

Cleaned == hpc \in {"cleaned", "again"}

\* C11: clean_html is idempotent: cleaning the text it returned gives that
\* text again.
C11_CleanHtmlIdempotent == hpc = "again" => cleaned_again = cleaned

\* a piece without '<' and '>'
PlainText(part) == \A i \in 1..Len(part) : part[i] \notin {"<", ">"}

\* where the name of a tag starts: after '<' or '</'
NameStart(part) == IF Len(part) >= 2 /\ part[2] = "/" THEN 3 ELSE 2

\* the name of a tag: the letters, digits and '_' that follow '<' or '</'
TagName(part) ==
    LET from == NameStart(part)
        stop == CHOOSE j \in from..(Len(part) + 1) :
                    /\ \A k \in from..(j - 1) : IsWordChar(part[k])
                    /\ j = Len(part) + 1 \/ ~IsWordChar(part[j])
    IN  SubSeq(part, from, stop - 1)

\* a piece that is one tag: '<', an optional '/', a name, anything but '<'
\* and '>', then '>'
IsTag(part) ==
    /\ Len(part) >= 3
    /\ part[1] = "<"
    /\ part[Len(part)] = ">"
    /\ PlainText(SubSeq(part, 2, Len(part) - 1))
    /\ TagName(part) # <<>>

\* the pieces without the tags whose name is not allowed
KeptParts(parts) ==
    SelectSeq(parts, LAMBDA part : PlainText(part) \/ TagName(part) \in AllowedTagNames)

\* C12: of a text written from words and tags, clean_html deletes the tags
\* whose name is not in the allow-list and keeps the words and the allowed
\* tags as written; '<b>hi</b><script>x</script>' gives '<b>hi</b>x'; an
\* absent or empty argument gives the empty text.
C12_AllowListedTagsSurvive ==
    Cleaned =>
        /\ (/\ html_in # NaN
            /\ \A i \in 1..Len(html_parts) :
                   PlainText(html_parts[i]) \/ IsTag(html_parts[i]))
               => cleaned = Flatten(KeptParts(html_parts))
        /\ html_parts = ScriptExample
               => cleaned = <<"<", "b", ">", "h", "i", "<", "/", "b", ">", "x">>
        /\ html_in \in {NaN, Str(<<>>)} => cleaned = <<>>

\* the example cleaned, with its script tags gone and the rest as written
C12_Witness ==
    /\ hpc = "cleaned"
    /\ html_parts = ScriptExample
    /\ cleaned = <<"<", "b", ">", "h", "i", "<", "/", "b", ">", "x">>

\* C13: an allowed tag survives in upper and mixed case and in its closing
\* form just as in its lower-case opening form.
C13_CaseAndSlashInsensitive ==
    (Cleaned /\ Len(html_parts) = 1 /\ html_parts[1] \in TagForms)
        => cleaned = html_parts[1]

----------------------------------------------------------------------------
(* Properties of the general fields of a record *)

\* the row has no such column, or an empty cell in it
Missing(row, key) == key \notin DOMAIN row \/ isna(row[key])

\* C14: a row in which price, taxCategory and stockOnHand are missing is
\* mapped to a record with price 0, taxCategory 'standard' and stockOnHand 100.
C14_DefaultsWhenMissing ==
    \A k \in 1..Len(all_rows) :
        LET row == source_data[mapped[k].index] IN
        (Missing(row, "price") /\ Missing(row, "taxCategory") /\ Missing(row, "stockOnHand"))
            => /\ all_rows[k]["price"] = Num(0, 1)
               /\ all_rows[k]["taxCategory"] = Str(<<"standard">>)
               /\ all_rows[k]["stockOnHand"] = Num(100, 1)

----------------------------------------------------------------------------
(* Properties of clean_and_convert *)

\* the cell handed to clean_and_convert: None where the row has no such column
CellOf(row) == IF "cell" \in DOMAIN row THEN row["cell"] ELSE None

AllDigits(s) == s # <<>> /\ \A i \in 1..Len(s) : s[i] \in Range(Digits)

\* an integer as int() reads it: digits, after at most one leading minus sign
IntegerText(s) == AllDigits(s) \/ (s # <<>> /\ s[1] = "-" /\ AllDigits(Tail(s)))

\* a decimal as Decimal() reads it: digits with at most one point among
\* them, after at most one leading minus sign
DecimalText(s) ==
    LET u == IF s # <<>> /\ s[1] = "-" THEN Tail(s) ELSE s
    IN  /\ \A i \in 1..Len(u) : u[i] \in Range(Digits) \cup {"."}
        /\ Cardinality({i \in 1..Len(u) : u[i] = "."}) <= 1
        /\ \E i \in 1..Len(u) : u[i] \in Range(Digits)

\* the characters of s that are in keep
Only(s, keep) == SelectSeq(s, LAMBDA c : c \in keep)

\* the coercion of the cell to the type fails
FailedCoercion(v, type) ==
    /\ ~isna(v)
    /\ \/ type = "int" /\ ~IntegerText(Only(ToStr(v), Range(Digits) \cup {"-"}))
       \/ type = "float" /\ v.t = "str"
              /\ ~DecimalText(Only(v.s, Range(Digits) \cup {".", "-"}))

\* every row with a slug has its record, with the sku stripped and with the
\* price and the nose width converted or blank
RowsStillMapped ==
    pc = "done" =>
        /\ Len(converted_data) = Len(source_data)
        /\ \A k \in 1..Len(converted_data) :
               LET row == source_data[mapped[k].index] IN
               /\ converted_data[k]["sku"] = Str(Strip(row["sku"].s))
               /\ \A f \in { <<"price", "price">>,
                             <<"variant:noseWidth", "variant:nose width(cm)">> } :
                      IF isna(row[f[2]]) \/ FailedCoercion(row[f[2]], "float")
                      THEN converted_data[k][f[1]] = Empty
                      ELSE converted_data[k][f[1]].t = "num"

\* C15 as stated: clean_and_convert never raises; an absent cell and a
\* failed coercion both give the empty text with one diagnostic; the other
\* fields of the row and the later rows are still mapped.
C15_NeverRaisesOneDiagnostic ==
    /\ cpc = "converted" =>
           /\ converted.t # "raise"
           /\ (isna(CellOf(cell_row)) \/ FailedCoercion(CellOf(cell_row), cell_type))
                  => (converted = Empty /\ diagnostics = 1)
    /\ RowsStillMapped

\* C15 amended: clean_and_convert never raises; an absent cell gives the
\* empty text with no diagnostic, a failed coercion gives the empty text
\* with one diagnostic, and any other call prints none; the other fields of
\* the row and the later rows are still mapped.
C15_NeverRaisesFailureLogged ==
    /\ cpc = "converted" =>
           /\ converted.t # "raise"
           /\ isna(CellOf(cell_row)) => (converted = Empty /\ diagnostics = 0)
           /\ FailedCoercion(CellOf(cell_row), cell_type)
                  => (converted = Empty /\ diagnostics = 1)
           /\ ~FailedCoercion(CellOf(cell_row), cell_type) => diagnostics = 0
    /\ RowsStillMapped

\* a minus sign that is not leading fails as a decimal, with one diagnostic
C15_Witness ==
    /\ cpc = "converted"
    /\ cell_type = "float"
    /\ CellOf(cell_row) = Str(<<"1", "-", "2">>)
    /\ converted = Empty
    /\ diagnostics = 1

----------------------------------------------------------------------------
(* Properties of the sku of a record *)

\* C16: the sku of a primary record is the sku of its row when that is
\* given, and '<slug>_default' otherwise; the sku of a variant record is the
\* sku of its row when given, and otherwise a text derived from the slug and
\* the option values; a sku already issued is never issued again.
C16_SkuAssignment ==
    \A k \in 1..Len(all_rows) :
        LET row    == source_data[mapped[k].index]
            sku    == all_rows[k]["sku"]
            issued == {all_rows[j]["sku"] : j \in 1..(k - 1)}
        IN  /\ sku \notin issued
            /\ (~Missing(row, "sku") /\ row["sku"] \notin issued) => sku = row["sku"]
            /\ (Missing(row, "sku") /\ mapped[k].first_row)
                   => sku = Str(mapped[k].slug \o <<"_", "d", "e", "f", "a", "u", "l", "t">>)
            /\ (Missing(row, "sku") /\ ~mapped[k].first_row)
                   => (sku.t = "str" /\ PrefixAt(sku.s, 1, mapped[k].slug))

----------------------------------------------------------------------------
(* Properties of the rows without a slug *)

\* C17: the rows whose slug is absent form one group, expanded like any
\* other: when one of them is named each of them has its record in the
\* output table, one of the records a primary and the rest variants.
C17_RowsWithoutSlugKept ==
    pc = "done" =>
        LET rows == {i \in 1..Len(source_data) : isna(source_data[i]["slug"])} IN
        NamedIn(rows) # {} =>
            /\ \A i \in rows : RecordsOf({i}) # {}
            /\ Cardinality({k \in RecordsOf(rows) : mapped[k].first_row}) = 1

----------------------------------------------------------------------------
(* Properties of the alignment of the two option strings *)

\* the place among its kind of the paired column whose word is the entry
PlaceOf(entry, names) ==
    Rank(CHOOSE col \in Kept(names) : WordOf(option_row[col]) = entry, names)

\* the strings have as many entries, and entries at the same place come
\* from the same pair of columns
Aligned ==
    LET groups == Entries(combined[1])
        values == Entries(combined[2])
    IN  /\ Len(groups) = Len(values)
        /\ \A i \in 1..Len(groups) :
               PlaceOf(groups[i], OptionGroupNames) = PlaceOf(values[i], OptionValueNames)

\* in every pair both cells are non-empty, or neither is
Balanced ==
    \A g \in Paired(OptionGroupNames), v \in Paired(OptionValueNames) :
        Rank(g, OptionGroupNames) = Rank(v, OptionValueNames)
            => (NonEmpty(option_row[g]) <=> NonEmpty(option_row[v]))

\* C18 as stated: for every row the two strings have the same number of
\* entries and the i-th value is of the same pair as the i-th group.
C18_StringsAligned == opc = "combined" => Aligned

\* C18 amended: the two strings are aligned for every row in which each
\* pair has both cells non-empty or both empty.
C18_BalancedRowsAligned == (opc = "combined" /\ Balanced) => Aligned

\* a row with two full pairs, its value columns out of order in the sheet
C18_Witness ==
    /\ opc = "combined"
    /\ Balanced
    /\ Len(Entries(combined[1])) >= 2
    /\ \E i, j \in 1..Len(sheet_columns) :
           /\ i < j
           /\ sheet_columns[i] \in Range(OptionValueNames)
           /\ sheet_columns[j] \in Range(OptionValueNames)
           /\ Suffix(sheet_columns[j], OptionValueNames)
                  < Suffix(sheet_columns[i], OptionValueNames)

----------------------------------------------------------------------------
(* Properties of the course of a group *)

\* the records made so far for group n of grouped_data
RecordsOfGroup(n) == {k \in 1..Len(mapped) : mapped[k].slug = grouped_data[n].slug}

\* the state of group n: 1 AwaitingPrimary, 2 PrimaryAssigned,
\* 3 VariantsEmitted, 4 Done
GroupState(n) ==
    IF pc = "done" \/ group_no > n THEN 4
    ELSE IF RecordsOfGroup(n) = {} THEN 1
    ELSE IF Cardinality(RecordsOfGroup(n)) = 1 THEN 2
    ELSE 3

Groups == 1..Len(grouped_data)

\* the first record of every group is its primary and no other record is
PrimaryFirst ==
    \A n \in Groups :
        \A k \in RecordsOfGroup(n) :
            mapped[k].first_row <=> (\A j \in RecordsOfGroup(n) : k <= j)

\* a group that is awaiting its primary has no record, one that is done has
\* a record of each of its rows
StateMatchesRecords ==
    \A n \in Groups :
        /\ GroupState(n) = 1 => RecordsOfGroup(n) = {}
        /\ GroupState(n) = 4
               => Cardinality(RecordsOfGroup(n)) = Len(grouped_data[n].index)

\* C19: each group goes from AwaitingPrimary through PrimaryAssigned and
\* VariantsEmitted to Done and never backwards; no variant record of a group
\* is appended before its primary record and a group has at most one
\* primary; every group reaches Done and the run ends.
C19_GroupLifecycle ==
    /\ [](PrimaryFirst /\ StateMatchesRecords)
    /\ [][\A n \in Groups : GroupState(n)' >= GroupState(n)]_vars
    /\ <>[](pc = "done" /\ \A n \in Groups : GroupState(n) = 4)

\* a finished run with a group of a primary and a variant after another group
C19_Witness ==
    /\ pc = "done"
    /\ Len(grouped_data) >= 2
    /\ Cardinality(RecordsOfGroup(2)) >= 2

----------------------------------------------------------------------------
(* Properties of the fields of a bar *)

\* the fields of the five bars: the name given in bar_info and the columns
\* named after the bar
OutputBars ==
    { [tab |-> 1, called |-> "Difficulty rider level rating",
       Name |-> "variant:optionTab1Bar1Name",
       Visible |-> "variant:optionTab1Bar1Visible",
       Rating |-> "variant:optionTab1Bar1Rating",
       MinLabel |-> "variant:optionTab1Bar1MinLabel",
       MaxLabel |-> "variant:optionTab1Bar1MaxLabel",
       Min |-> "variant:optionTab1Bar1Min",
       Max |-> "variant:optionTab1Bar1Max"],
      [tab |-> 1, called |-> "Difficulty flex rating",
       Name |-> "variant:optionTab1Bar2Name",
       Visible |-> "variant:optionTab1Bar2Visible",
       Rating |-> "variant:optionTab1Bar2Rating",
       MinLabel |-> "variant:optionTab1Bar2MinLabel",
       MaxLabel |-> "variant:optionTab1Bar2MaxLabel",
       Min |-> "variant:optionTab1Bar2Min",
       Max |-> "variant:optionTab1Bar2Max"],
      [tab |-> 2, called |-> "Powder",
       Name |-> "variant:optionTab2Bar1Name",
       Visible |-> "variant:optionTab2Bar1Visible",
       Rating |-> "variant:optionTab2Bar1Rating",
       MinLabel |-> "variant:optionTab2Bar1MinLabel",
       MaxLabel |-> "variant:optionTab2Bar1MaxLabel",
       Min |-> "variant:optionTab2Bar1Min",
       Max |-> "variant:optionTab2Bar1Max"],
      [tab |-> 2, called |-> "All Mountain",
       Name |-> "variant:optionTab2Bar2Name",
       Visible |-> "variant:optionTab2Bar2Visible",
       Rating |-> "variant:optionTab2Bar2Rating",
       MinLabel |-> "variant:optionTab2Bar2MinLabel",
       MaxLabel |-> "variant:optionTab2Bar2MaxLabel",
       Min |-> "variant:optionTab2Bar2Min",
       Max |-> "variant:optionTab2Bar2Max"],
      [tab |-> 2, called |-> "Resort",
       Name |-> "variant:optionTab2Bar3Name",
       Visible |-> "variant:optionTab2Bar3Visible",
       Rating |-> "variant:optionTab2Bar3Rating",
       MinLabel |-> "variant:optionTab2Bar3MinLabel",
       MaxLabel |-> "variant:optionTab2Bar3MaxLabel",
       Min |-> "variant:optionTab2Bar3Min",
       Max |-> "variant:optionTab2Bar3Max"] }

\* the field of a record, None for a record without it
FieldOf(rec, field) == Get(rec, field, None)

\* what the record holds of bar b apart from its range
BarShown(rec, b) ==
    /\ FieldOf(rec, b.Visible) \in {Flag(TRUE), Flag(FALSE)}
    /\ FieldOf(rec, b.Visible) = Flag(FALSE) =>
           /\ FieldOf(rec, b.Rating) = Empty
           /\ FieldOf(rec, b.MinLabel) = Empty
           /\ FieldOf(rec, b.MaxLabel) = Empty
    /\ FieldOf(rec, b.Visible) = Flag(TRUE) =>
           /\ FieldOf(rec, b.Rating).t = "num"
           /\ FieldOf(rec, b.Rating).num > 0
    /\ FieldOf(rec, b.Name) = Lit(b.called)

\* the range '10' to '100' held for bar b
BarRange(rec, b) ==
    /\ FieldOf(rec, b.Min) = Lit("10")
    /\ FieldOf(rec, b.Max) = Lit("100")

\* the records appended and, once built, the records of the output
OutputRecords ==
    {all_rows[k] : k \in 1..Len(all_rows)}
        \cup (IF pc = "done" THEN {converted_data[k] : k \in 1..Len(converted_data)}
              ELSE {})

====
